---------------------------- MODULE Spec2Model ----------------------------
(***************************************************************************)
(* dsmr5-exporter: the telegram framing codec (src/src/decoder.rs), the    *)
(* metric store (src/src/metrics.rs) and the serial read supervisor and    *)
(* scrape handler (src/src/main.rs).                                       *)
(***************************************************************************)
EXTENDS Integers, Sequences, FiniteSets, TLC

(***************************************************************************)
(* Option<T>: None is the empty sequence, Some(v) the one-element sequence *)
(***************************************************************************)
None == <<>>
Some(v) == <<v>>
IsSome(o) == o # <<>>
Unwrap(o) == o[1]

(***************************************************************************)
(* f64.  A value is sign * (hi * 2^28 + lo) * 2^-39: every binary64 number *)
(* that is an integer multiple of 2^-39 and smaller than 2^18 in magnitude *)
(* is represented exactly, and those are the values the model feeds in.    *)
(* Addition, subtraction and multiplication compute the exact result and   *)
(* round it to 53 significant bits, ties to even, as IEEE 754 does.        *)
(***************************************************************************)
Limb == 2^28
F64Zero == [neg |-> FALSE, hi |-> 0, lo |-> 0]
F64(hi, lo) == [neg |-> FALSE, hi |-> hi, lo |-> lo]
\* an integer n < 2^17 as a binary64 (the cast `n as f64`)
F64FromInt(n) == [neg |-> FALSE, hi |-> n * 2^11, lo |-> 0]

MagIsZero(a) == a.hi = 0 /\ a.lo = 0
MagLess(a, b) == a.hi < b.hi \/ (a.hi = b.hi /\ a.lo < b.lo)
MagAdd(a, b) ==
    LET s == a.lo + b.lo
    IN  [hi |-> a.hi + b.hi + (s \div Limb), lo |-> s % Limb]
\* a - b for a >= b
MagSub(a, b) ==
    LET borrow == IF a.lo < b.lo THEN 1 ELSE 0
    IN  [hi |-> a.hi - b.hi - borrow, lo |-> a.lo + borrow * Limb - b.lo]
\* a * k for an integer k below 2^17, by halves of the low limb
HalfLimb == 2^14
MagMulSmall(a, k) ==
    LET p0 == (a.lo % HalfLimb) * k
        p1 == (a.lo \div HalfLimb) * k + (p0 \div HalfLimb)
    IN  [hi |-> a.hi * k + (p1 \div HalfLimb),
         lo |-> (p1 % HalfLimb) * HalfLimb + (p0 % HalfLimb)]

\* the number of low bits that do not fit a 53-bit significand, as 2^bits
RoundQuantum(m) ==
    IF m.hi < 2^25 THEN 1
    ELSE IF m.hi < 2^26 THEN 2
    ELSE IF m.hi < 2^27 THEN 4
    ELSE IF m.hi < 2^28 THEN 8
    ELSE 16
\* round to nearest, ties to even
RoundMag(m) ==
    LET q    == RoundQuantum(m)
        r    == m.lo % q
        down == m.lo - r
        up   == (2 * r > q) \/ (2 * r = q /\ (down \div q) % 2 = 1)
        lo2  == IF up THEN down + q ELSE down
    IN  [hi |-> m.hi + (lo2 \div Limb), lo |-> lo2 % Limb]

F64Make(neg, m) ==
    LET r == RoundMag(m)
    IN  [neg |-> neg /\ ~MagIsZero(r), hi |-> r.hi, lo |-> r.lo]
F64Neg(x) == [neg |-> ~x.neg /\ ~MagIsZero(x), hi |-> x.hi, lo |-> x.lo]
F64Add(x, y) ==
    IF x.neg = y.neg THEN F64Make(x.neg, MagAdd(x, y))
    ELSE IF MagLess(x, y) THEN F64Make(y.neg, MagSub(y, x))
    ELSE F64Make(x.neg, MagSub(x, y))
F64Sub(x, y) == F64Add(x, F64Neg(y))
\* x * 3600000.0: the exact product (3600000 = 1875 * 1920), then rounded
F64Times3600000(x) == F64Make(x.neg, MagMulSmall(MagMulSmall(x, 1875), 1920))
\* x * 1000.0
F64Times1000(x) == F64Make(x.neg, MagMulSmall(x, 1000))
\* x >= 0.0
F64GeZero(x) == ~x.neg
\* x <= y
F64Le(x, y) ==
    IF x.neg /\ ~y.neg THEN TRUE
    ELSE IF ~x.neg /\ y.neg THEN FALSE
    ELSE IF x.neg THEN ~MagLess(x, y)
    ELSE ~MagLess(y, x)

(***************************************************************************)
(* u64.  Counts stay far below 2^64, so a residue modulo 2^64 is written   *)
(* as an integer: a negative d stands for d + 2^64.                        *)
(***************************************************************************)
\* a - b on u64: the dev profile checks the overflow and panics (None),
\* the release profile wraps
U64Sub(a, b, checked) == IF a < b /\ checked THEN None ELSE Some(a - b)
\* AtomicU64::fetch_add wraps: cur + d modulo 2^64
U64WrappingAdd(cur, d) == cur + d

\* i64::from_be_bytes
RECURSIVE BeFold(_, _, _)
BeFold(bytes, i, acc) ==
    IF i > Len(bytes) THEN acc ELSE BeFold(bytes, i + 1, acc * 256 + bytes[i])
I64FromBeBytes(bytes) == BeFold(bytes, 1, 0)

VARIABLES
    debug_assertions,   \* the build profile: dev (TRUE) or release (FALSE)
    metrics,            \* the Metrics struct: the instruments and last_update
    now,                \* Instant::now(), in milliseconds
    panicked,           \* the main task has panicked: it unwinds, and the
                        \* process ends once main_pc is "exited"
    response,           \* what the latest scrape of /metrics returned
    n_updates,          \* completed calls of Metrics::update
    last_state,         \* the snapshot of the latest call of Metrics::update
    before,             \* the instrument values when that call began
    updated_at,         \* the instant of the latest completed update
    pc,                 \* where the read task is: "idle" (not started),
                        \* "start" (about to open the port), "sleeping"
                        \* (between attempts), "reading", "cancelled", "returned"
    backoff,            \* the ExponentialBackoff of the retry
    waits,              \* the waits since the latest successful open, newest last
    opens,              \* successful opens so far
    port,               \* the bytes the open port has yet to deliver
    items,              \* the pieces the open port's bytes were made of
    framed,             \* the Framed reader: buffer, eof, is_readable, has_errored
    emitted,            \* the snapshots the reader yielded on this connection
    last_decode,        \* the latest call of decode: its buffer before and after, its result
    log,                \* the lines printed by the read task, newest last
    rwlock,             \* the RwLock around the store: writer held, readers holding
    writer,             \* the loop body applying a snapshot: its statements and
                        \* position, or None
    handlers,           \* the scrape handlers: where each is and what it returned
    committed,          \* the encodings of the store after each whole update
    main_pc,            \* where main is: "select", "awaiting_server", "exited"
    server              \* the scrape server: its state and its open connections

metricsVars ==
    <<debug_assertions, metrics, now, panicked, response, n_updates,
      last_state, before, updated_at>>
supervisorVars == <<pc, backoff, waits, opens, log>>
readerVars == <<port, items, framed, emitted, last_decode>>
lockVars == <<rwlock, writer, handlers, committed>>
shutdownVars == <<main_pc, server>>
vars == <<metricsVars, supervisorVars, readerVars, lockVars, shutdownVars>>

(***************************************************************************)
(* metrics.rs                                                              *)
(***************************************************************************)
METRICS_TTL == 10000

CounterVecs == {"energy_delivered_joules_total", "energy_received_joules_total"}
IntCounterVecs == {"phase_voltage_sags_total", "phase_voltage_swells_total"}
Counters == {"gas_delivered_cubic_meters_total"}
IntCounters == {"power_failures_total", "power_long_failures_total"}
GaugeVecs ==
    {"phase_voltage_volts", "phase_current_amperes",
     "phase_active_power_positive_watts", "phase_active_power_negative_watts"}
Gauges == {"power_delivered_watts", "power_received_watts"}
IntGauges == {"energy_tariff"}
Instruments ==
    CounterVecs \cup IntCounterVecs \cup Counters \cup IntCounters
        \cup GaugeVecs \cup Gauges \cup IntGauges

\* a *Vec instrument is a function from the label values that have a child
NoChildren == [l \in {} |-> 0]
VecGet(vec, zero, l) == IF l \in DOMAIN vec THEN vec[l] ELSE zero
VecSet(vec, l, v) == [k \in DOMAIN vec \cup {l} |-> IF k = l THEN v ELSE vec[k]]
\* (i + 1).to_string() for the 0-based index i of enumerate()
Label(i) == ToString(i + 1)

\* a store that counts as updated at the instant it is built
MetricsNewFresh(t) ==
    [k \in Instruments \cup {"last_update"} |->
        IF k = "last_update" THEN t
        ELSE IF k \in CounterVecs \cup IntCounterVecs \cup GaugeVecs THEN NoChildren
        ELSE IF k \in Counters \cup Gauges THEN F64Zero
        ELSE 0]
\* Metrics::new
MetricsNew(t) ==
    [energy_delivered_joules_total     |-> NoChildren,
     energy_received_joules_total      |-> NoChildren,
     energy_tariff                     |-> 0,
     power_delivered_watts             |-> F64Zero,
     power_received_watts              |-> F64Zero,
     power_failures_total              |-> 0,
     power_long_failures_total         |-> 0,
     phase_voltage_sags_total          |-> NoChildren,
     phase_voltage_swells_total        |-> NoChildren,
     phase_voltage_volts               |-> NoChildren,
     phase_current_amperes             |-> NoChildren,
     phase_active_power_positive_watts |-> NoChildren,
     phase_active_power_negative_watts |-> NoChildren,
     gas_delivered_cubic_meters_total  |-> F64Zero,
     last_update                       |-> t - METRICS_TTL]

\* prometheus Counter::inc_by: debug_assert!(v >= 0.0), then cur + v
F64CounterIncBy(cur, v, checked) ==
    IF checked /\ ~F64GeZero(v) THEN None ELSE Some(F64Add(cur, v))
\* prometheus IntCounter::inc_by on u64
IntCounterIncBy(cur, v) == Some(U64WrappingAdd(cur, v))

\* counter.inc_by(target - counter.get()) on a float counter
F64CounterDelta(cur, target, checked) ==
    F64CounterIncBy(cur, F64Sub(target, cur), checked)
\* counter.inc_by(target - counter.get()) on an integer counter
IntCounterDelta(cur, target, checked) ==
    LET d == U64Sub(target, cur, checked)
    IN  IF d = None THEN None ELSE IntCounterIncBy(cur, Unwrap(d))

(* Metrics::update is a sequence of statements, each of which acts on one
   instrument when its field is present.  A statement is the instrument, the
   label of the child (for a *Vec) and the value the field yields; a run
   r = [m, panic] is the store so far and whether a statement has panicked. *)
Stmt(kind, name, l, value) ==
    [kind |-> kind, name |-> name, label |-> l, value |-> value]
\* each conversion of a field that is present (`if let Some(v) = field`)
Joules(opt) ==
    IF opt = None THEN None ELSE Some(F64Times3600000(Unwrap(opt)))
TimesThousand(opt) ==
    IF opt = None THEN None ELSE Some(F64Times1000(Unwrap(opt)))
\* a line without a current reported as 0 A
AsF64OrZero(opt) ==
    IF opt = None THEN Some(F64Zero) ELSE Some(F64FromInt(Unwrap(opt)))
AsF64(opt) == IF opt = None THEN None ELSE Some(F64FromInt(Unwrap(opt)))
TariffValue(opt) ==
    IF opt = None THEN None
    ELSE Some(I64FromBeBytes(<<0, 0, 0, 0, 0, 0, Unwrap(opt)[1], Unwrap(opt)[2]>>))

\* the body of `for (i, reading) in state.meterreadings.iter().enumerate()`
ReadingStmts(i, reading) ==
    << Stmt("CounterVec", "energy_delivered_joules_total", Label(i),
            Joules(reading.to)),
       Stmt("CounterVec", "energy_received_joules_total", Label(i),
            Joules(reading.by)) >>
RECURSIVE ReadingsLoop(_, _)
ReadingsLoop(readings, i) ==
    IF i >= Len(readings) THEN <<>>
    ELSE ReadingStmts(i, readings[i + 1]) \o ReadingsLoop(readings, i + 1)

\* the body of `for (i, line) in state.lines.iter().enumerate()`
LineStmts(i, line) ==
    << Stmt("IntCounterVec", "phase_voltage_sags_total", Label(i),
            line.voltage_sags),
       Stmt("IntCounterVec", "phase_voltage_swells_total", Label(i),
            line.voltage_swells),
       Stmt("GaugeVec", "phase_voltage_volts", Label(i), line.voltage),
       Stmt("GaugeVec", "phase_current_amperes", Label(i),
            AsF64(line.current)),
       Stmt("GaugeVec", "phase_active_power_positive_watts", Label(i),
            TimesThousand(line.active_power_plus)),
       Stmt("GaugeVec", "phase_active_power_negative_watts", Label(i),
            TimesThousand(line.active_power_neg)) >>
RECURSIVE LinesLoop(_, _)
LinesLoop(lines, i) ==
    IF i >= Len(lines) THEN <<>>
    ELSE LineStmts(i, lines[i + 1]) \o LinesLoop(lines, i + 1)

\* state.slaves.iter().find(|slave| slave.device_type == Some(3))
FindGasSlave(slaves) ==
    LET hits == {k \in 1..Len(slaves) : slaves[k].device_type = Some(3)}
    IN  IF hits = {} THEN None
        ELSE Some(slaves[CHOOSE k \in hits : \A j \in hits : k <= j])
\* the reading of the gas meter, if there is one and it reports one
GasReadingOf(slaves) ==
    LET gas_slave == FindGasSlave(slaves)
    IN  IF gas_slave = None \/ Unwrap(gas_slave).meter_reading = None THEN None
        ELSE Some(Unwrap(gas_slave).meter_reading[1][2])

\* the statements of Metrics::update, in the order of the code
UpdateStmts(state) ==
    ReadingsLoop(state.meterreadings, 0)
    \o << Stmt("Gauge", "energy_tariff", "",
               TariffValue(state.tariff_indicator)),
          Stmt("Gauge", "power_delivered_watts", "",
               TimesThousand(state.power_delivered)),
          Stmt("Gauge", "power_received_watts", "",
               TimesThousand(state.power_received)),
          Stmt("IntCounter", "power_failures_total", "", state.power_failures),
          Stmt("IntCounter", "power_long_failures_total", "",
               state.long_power_failures) >>
    \o LinesLoop(state.lines, 0)
    \o << Stmt("Counter", "gas_delivered_cubic_meters_total", "",
               GasReadingOf(state.slaves)) >>

\* the instrument (or child) a statement acts on, as it stands
Current(m, st) ==
    CASE st.kind \in {"CounterVec", "GaugeVec"} -> VecGet(m[st.name], F64Zero, st.label)
      [] st.kind = "IntCounterVec" -> VecGet(m[st.name], 0, st.label)
      [] OTHER -> m[st.name]
\* what the statement makes of it: Some(value), or None when it panics
Outcome(cur, st, checked) ==
    CASE st.kind \in {"CounterVec", "Counter"} ->
            F64CounterDelta(cur, Unwrap(st.value), checked)
      [] st.kind \in {"IntCounterVec", "IntCounter"} ->
            IntCounterDelta(cur, Unwrap(st.value), checked)
      [] OTHER -> Some(Unwrap(st.value))
IsVec(st) == st.kind \in {"CounterVec", "IntCounterVec", "GaugeVec"}
\* what a statement with a value does: whether it panics, and the value it
\* leaves in its instrument or child (with_label_values creates the child
\* before inc_by can panic)
Effect(m, st, checked) ==
    LET cur == Current(m, st)
        res == Outcome(cur, st, checked)
    IN  IF res = None THEN [panic |-> TRUE, value |-> cur]
        ELSE [panic |-> FALSE, value |-> Unwrap(res)]
\* the store with value v in the instrument or child of statement st
Store(m, st, v) ==
    IF IsVec(st) THEN [m EXCEPT ![st.name] = VecSet(@, st.label, v)]
    ELSE [m EXCEPT ![st.name] = v]

(* The statements from the k-th on, run in order on store m up to the first
   that panics; a statement whose field is None does nothing.  The store a
   statement leaves is bound through a singleton set, which evaluates it
   once before the next statement reads it. *)
RECURSIVE RunStmts(_, _, _, _)
RunStmts(m, stmts, k, checked) ==
    IF k > Len(stmts) THEN [m |-> m, panic |-> FALSE]
    ELSE IF stmts[k].value = None THEN RunStmts(m, stmts, k + 1, checked)
    ELSE CHOOSE r \in
           {IF e.panic THEN [m |-> Store(m, stmts[k], e.value), panic |-> TRUE]
            ELSE CHOOSE r2 \in {RunStmts(m2, stmts, k + 1, checked) :
                                  m2 \in {Store(m, stmts[k], e.value)}} : TRUE
              : e \in {Effect(m, stmts[k], checked)}} : TRUE

\* Metrics::update on store m at instant t; [m, panic]
\* update that stamps the store only when a statement ran
UpdateRunStampingChanges(m, state, t) ==
    LET stmts == UpdateStmts(state)
        run == RunStmts(m, stmts, 1, debug_assertions)
    IN  IF run.panic \/ \A k \in DOMAIN stmts : stmts[k].value = None THEN run
        ELSE [run EXCEPT !.m.last_update = t]
UpdateRun(m, state, t) ==
    CHOOSE r \in
      {IF run.panic THEN run ELSE [run EXCEPT !.m.last_update = t]
         : run \in {RunStmts(m, stmts, 1, debug_assertions) :
                      stmts \in {UpdateStmts(state)}}} : TRUE

\* Metrics::encode: the registry's instruments, each with its children
Encode(m) == [k \in Instruments |-> m[k]]

\* the freshness test with its boundary on the other side
StaleAtBoundary(m, t) == t - m.last_update >= METRICS_TTL
\* handler: the body of the response to GET /metrics; None is the empty body
Stale(m, t) == t - m.last_update > METRICS_TTL
Handler(m, t) == IF Stale(m, t) THEN None ELSE Some(Encode(m))

(***************************************************************************)
(* The snapshots (dsmr5::state::State) the store is fed.  A snapshot is    *)
(* given by the set of fields that are present and by a level: every       *)
(* cumulative value grows with the level, so a lower level after a higher  *)
(* one is a meter that reports less than before.                           *)
(***************************************************************************)
MaxLevel == 2
Levels == 1..MaxLevel

ReadingFields == {"to", "by"}
LineFields == {"voltage_sags", "voltage_swells", "voltage", "current",
               "active_power_plus", "active_power_neg"}
AllFields ==
    (ReadingFields \X (1..2)) \cup (LineFields \X (1..3))
        \cup ({"tariff_indicator", "power_delivered", "power_received",
               "power_failures", "long_power_failures",
               "gas_slave", "gas_reading"} \X {0})
GasOnly == {<<"gas_slave", 0>>, <<"gas_reading", 0>>}
\* a telegram that carries none of the fields update reads
NoFields == {}
PresencePatterns ==
    {AllFields, GasOnly, AllFields \ {<<"gas_reading", 0>>}, NoFields}

\* cubic metres: 9071.819, 59233.207, then whole numbers
GasReading(l) ==
    CASE l = 1 -> F64(18579085, 83751862)
      [] l = 2 -> F64(121309607, 251255588)
      [] OTHER -> F64FromInt(59233 + l)

Opt(p, f, v) == IF f \in p THEN Some(v) ELSE None
\* kWh, in steps of 2^-9
MeterReadingOf(p, l, i) ==
    [to |-> Opt(p, <<"to", i>>, F64(4 * (2 * l + i), 0)),
     by |-> Opt(p, <<"by", i>>, F64(4 * l + i, 0))]
LineOf(p, l, j) ==
    [voltage_sags      |-> Opt(p, <<"voltage_sags", j>>, 10 * j + l),
     voltage_swells    |-> Opt(p, <<"voltage_swells", j>>, 100 + 10 * j + l),
     voltage           |-> Opt(p, <<"voltage", j>>, F64FromInt(229 + j + l)),
     current           |-> Opt(p, <<"current", j>>, j + l),
     active_power_plus |-> Opt(p, <<"active_power_plus", j>>, F64(1024 * (j + l), 0)),
     active_power_neg  |-> Opt(p, <<"active_power_neg", j>>, F64(512 * (j + l), 0))]
\* slave 1 is a meter of another type, slaves 2 and 4 are gas meters
SlavesOf(p, l) ==
    LET tst == "tst"
        gas == IF <<"gas_slave", 0>> \in p THEN Some(3) ELSE None
    IN  << [device_type |-> Some(2),
            meter_reading |-> Some(<<tst, F64FromInt(8192)>>)],
           [device_type |-> gas,
            meter_reading |-> Opt(p, <<"gas_reading", 0>>, <<tst, GasReading(l)>>)],
           [device_type |-> None, meter_reading |-> None],
           [device_type |-> gas,
            meter_reading |-> Some(<<tst, F64FromInt(9000)>>)] >>
StateOf(p, l) ==
    [meterreadings       |-> [i \in 1..2 |-> MeterReadingOf(p, l, i)],
     tariff_indicator    |-> Opt(p, <<"tariff_indicator", 0>>, <<l - 1, l>>),
     power_delivered     |-> Opt(p, <<"power_delivered", 0>>, F64(3072 * l, 0)),
     power_received      |-> Opt(p, <<"power_received", 0>>, F64(1024 * l, 0)),
     power_failures      |-> Opt(p, <<"power_failures", 0>>, 10 + l),
     long_power_failures |-> Opt(p, <<"long_power_failures", 0>>, 2 + l),
     lines               |-> [j \in 1..3 |-> LineOf(p, l, j)],
     slaves              |-> SlavesOf(p, l)]
States == {StateOf(p, l) : p \in PresencePatterns, l \in Levels}

(***************************************************************************)
(* decoder.rs.  A buffer is a sequence of bytes.                           *)
(***************************************************************************)
StartMarker == 47           \* b'/'
EndMarker == 33             \* b'!'
MaxFrameLen == 2048
\* from the end marker to the end of the frame: '!', four checksum
\* characters, CR, LF
EndOffset == 7

\* iter().position(|b| *b == byte): the 0-based index of the first such byte
Position(src, byte) ==
    LET hits == {i \in 1..Len(src) : src[i] = byte}
    IN  IF hits = {} THEN None
        ELSE Some((CHOOSE i \in hits : \A j \in hits : i <= j) - 1)
\* BytesMut::advance: the buffer without its first n bytes
Advance(src, n) == SubSeq(src, n + 1, Len(src))
\* BytesMut::resize(n, 0)
Resize(frame, n) ==
    IF Len(frame) >= n THEN SubSeq(frame, 1, n)
    ELSE frame \o [i \in 1..(n - Len(frame)) |-> 0]

\* the bytes of a telegram whose payload is the digit of a level
Trailer == <<99, 99, 99, 99, 13, 10>>
TelegramBytes(payload) == <<StartMarker>> \o payload \o <<EndMarker>> \o Trailer
LevelDigit(l) == 48 + l
(* dsmr5::Readout::to_telegram and dsmr5::Result::from, on the padded
   buffer: the snapshot of the telegram, or None when the bytes are not a
   telegram with a valid checksum and parsable objects.  The parser is not
   part of this repository; here the telegrams that parse are those of
   TelegramBytes with the digit of a level as payload. *)
ToState(buffer) ==
    LET ls == {l \in Levels :
                 buffer = Resize(TelegramBytes(<<LevelDigit(l)>>), MaxFrameLen)}
    IN  IF ls = {} THEN None ELSE Some(StateOf(AllFields, CHOOSE l \in ls : TRUE))

\* the length test against twice the size of a frame
TooLongDoubled(src) == Len(src) > 2 * MaxFrameLen
\* the length test with room for the bytes after the end marker
TooLongPastTrailer(src) == Len(src) > MaxFrameLen + EndOffset
\* src.len() > 2048
TooLong(src) == Len(src) > MaxFrameLen

\* what decode returns, with the buffer as it leaves it and the frame it split
\* off the buffer, if it came to that
DecodeResult(kind, item, src) ==
    [kind |-> kind, item |-> item, src |-> src, frame |-> None]
\* decode from the split on: the frame is cut off, padded and parsed
DecodeFrame(src, end_index) ==
    LET frame == SubSeq(src, 1, end_index)
        state == ToState(Resize(frame, MaxFrameLen))
        rest  == SubSeq(src, end_index + 1, Len(src))
    IN  [(IF state = None THEN DecodeResult("ErrMalformed", None, rest)
          ELSE DecodeResult("Frame", state, rest))
            EXCEPT !.frame = Some(frame)]
\* decode once the buffer begins with the start marker
DecodeFromStart(src) ==
    LET bang == Position(src, EndMarker)
    IN  IF bang = None THEN DecodeResult("None", None, src)
        ELSE IF Len(src) < Unwrap(bang) + EndOffset
        THEN DecodeResult("None", None, src)
        ELSE DecodeFrame(src, Unwrap(bang) + EndOffset)
\* decode that empties a buffer in which it finds no start marker
DecodeDroppingUnmarked(src) ==
    IF TooLong(src) THEN DecodeResult("ErrTooLong", None, src)
    ELSE LET start == Position(src, StartMarker)
         IN  IF start = None THEN DecodeResult("None", None, <<>>)
             ELSE DecodeFromStart(Advance(src, Unwrap(start)))
\* decode that throws the buffer away when it is too long
DecodeClearing(src) ==
    IF TooLong(src) THEN DecodeResult("ErrTooLong", None, <<>>)
    ELSE LET start == Position(src, StartMarker)
         IN  IF start = None THEN DecodeResult("None", None, src)
             ELSE DecodeFromStart(Advance(src, Unwrap(start)))
\* decode that looks for the end marker from the start of the buffer
DecodeWithoutResync(src) ==
    IF TooLong(src) THEN DecodeResult("ErrTooLong", None, src)
    ELSE IF Position(src, StartMarker) = None THEN DecodeResult("None", None, src)
    ELSE DecodeFromStart(src)
\* Dsmr5Codec::decode
Decode(src) ==
    IF TooLong(src) THEN DecodeResult("ErrTooLong", None, src)
    ELSE LET start == Position(src, StartMarker)
         IN  IF start = None THEN DecodeResult("None", None, src)
             ELSE DecodeFromStart(Advance(src, Unwrap(start)))

(***************************************************************************)
(* The reader of main.rs: Dsmr5Codec::new().framed(port), polled by        *)
(* reader.next().  Framed is tokio_util's: it reads into its buffer, calls *)
(* decode while the buffer is readable, yields None once after an error    *)
(* and calls decode_eof when the port reports its end.                     *)
(***************************************************************************)
FramedNew ==
    [buffer |-> <<>>, eof |-> FALSE, is_readable |-> FALSE, has_errored |-> FALSE]
\* Decoder::decode_eof, which Dsmr5Codec does not override
DecodeEof(src) ==
    LET r == Decode(src)
    IN  IF r.kind = "None" /\ r.src # <<>>
        THEN DecodeResult("ErrBytesRemaining", None, r.src)
        ELSE r

\* the pieces a port's bytes are made of
Noise == [i \in 1..3 |-> 103]
LongNoise == [i \in 1..(MaxFrameLen - 8) |-> 103]
PieceKinds ==
    {"telegram1", "telegram2", "malformed", "noise", "long_noise", "fullsize",
     "oversize"}
PieceBytes(kind) ==
    CASE kind = "telegram1" -> TelegramBytes(<<LevelDigit(1)>>)
      [] kind = "telegram2" -> TelegramBytes(<<LevelDigit(2)>>)
      [] kind = "malformed" -> TelegramBytes(<<120>>)
      [] kind = "noise" -> Noise
      [] kind = "long_noise" -> LongNoise
      [] kind = "fullsize" ->
            TelegramBytes([i \in 1..(MaxFrameLen - EndOffset - 1) |-> 97])
      [] kind = "oversize" -> TelegramBytes([i \in 1..MaxFrameLen |-> 97])
RECURSIVE StreamBytes(_)
StreamBytes(pieces) ==
    IF pieces = <<>> THEN <<>>
    ELSE PieceBytes(Head(pieces)) \o StreamBytes(Tail(pieces))
MaxPieces == 2
Streams == UNION {[1..n -> PieceKinds] : n \in 0..MaxPieces}
\* the snapshots of the well-formed telegrams among the pieces, in order
RECURSIVE TelegramsOf(_)
TelegramsOf(pieces) ==
    IF pieces = <<>> THEN <<>>
    ELSE (CASE Head(pieces) = "telegram1" -> <<StateOf(AllFields, 1)>>
            [] Head(pieces) = "telegram2" -> <<StateOf(AllFields, 2)>>
            [] OTHER -> <<>>) \o TelegramsOf(Tail(pieces))

(* The sizes of the next read: every way of cutting the bytes at, before or
   after their next start marker and end marker, and all of them at once. *)
ReadSizes(bytes) ==
    LET cuts == {Len(bytes)} \cup
                UNION {IF Position(bytes, b) = None THEN {}
                       ELSE {Unwrap(Position(bytes, b)),
                             Unwrap(Position(bytes, b)) + 1} :
                       b \in {StartMarker, EndMarker}}
    IN  {n \in cuts : 1 <= n /\ n <= Len(bytes)}

(***************************************************************************)
(* The retry of main.rs: backoff::future::retry with an ExponentialBackoff *)
(* of the crate's defaults but for max_interval and max_elapsed_time.      *)
(* Durations are in microseconds.                                          *)
(***************************************************************************)
InitialIntervalMillis == 500
MaxIntervalMillis == 5000
MultiplierTimesTwo == 3
RandomizationPercent == 50
MaxInterval == MaxIntervalMillis * 1000
\* the crate's default, 15 minutes, which the builder call replaces
DefaultMaxElapsedTime == Some(900000000)
\* with_max_elapsed_time(None)
MaxElapsedTime == None
\* ExponentialBackoff after reset()
BackoffNew == [current_interval |-> InitialIntervalMillis * 1000]
\* get_random_value_from_interval: the ends and the middle of the range
RandomizedIntervals(cur) ==
    LET delta == (cur * RandomizationPercent) \div 100
    IN  {cur - delta, cur, cur + delta}
\* the growth of the interval without its cap
IncrementUncapped(cur) == (cur * MultiplierTimesTwo) \div 2
\* increment_current_interval
IncrementCurrentInterval(cur) ==
    IF cur * MultiplierTimesTwo >= MaxInterval * 2 THEN MaxInterval
    ELSE (cur * MultiplierTimesTwo) \div 2
\* next_backoff: None when the elapsed time is bounded and spent
NextBackoff(b, randomized, spent) ==
    IF MaxElapsedTime # None /\ spent THEN None
    ELSE Some([wait |-> randomized, interval |-> b.current_interval,
               backoff |-> [current_interval |->
                              IncrementCurrentInterval(b.current_interval)]])

(***************************************************************************)
(* The store under a sequence of updates, with scrapes and passing time    *)
(***************************************************************************)
MaxUpdates == 3
MaxTicks == 2
\* the process starts one freshness window after the clock's origin
StartInstant == METRICS_TTL
TickSteps == {1, METRICS_TTL}
\* the ticks it takes to get from one instant to a later one
TicksBetween(t0, t1) == ((t1 - t0) \div METRICS_TTL) + ((t1 - t0) % METRICS_TTL)

InitMetricsVars ==
    /\ debug_assertions \in BOOLEAN
    /\ now = StartInstant
    /\ metrics = MetricsNew(StartInstant)
    /\ panicked = FALSE
    /\ response = None
    /\ n_updates = 0
    /\ last_state = None
    /\ before = Encode(MetricsNew(StartInstant))
    /\ updated_at = None

\* metrics.update(&frame) under the write lock
ApplyUpdate(state) ==
    \E r \in {UpdateRun(metrics, state, now)} :
        /\ metrics' = r.m
        /\ panicked' = r.panic
        /\ n_updates' = IF r.panic THEN n_updates ELSE n_updates + 1
        /\ updated_at' = IF r.panic THEN updated_at ELSE Some(now)
        /\ last_state' = Some(state)
        /\ before' = Encode(metrics)
        /\ response' = None
        /\ UNCHANGED <<debug_assertions, now>>


\* the store fed directly, one snapshot after another
Update ==
    /\ ~panicked
    /\ n_updates < MaxUpdates
    /\ \E state \in States : ApplyUpdate(state)
    /\ UNCHANGED <<supervisorVars, readerVars>>
    /\ UNCHANGED <<lockVars, shutdownVars>>

\* GET /metrics; the server accepts requests after the store was built, and
\* its worker threads go on serving while a panic of the main task unwinds
Scrape ==
    /\ main_pc # "exited"
    /\ now > StartInstant
    /\ response' = Some(Handler(metrics, now))
    /\ UNCHANGED <<debug_assertions, metrics, now, panicked, n_updates,
                   last_state, before, updated_at>>
    /\ UNCHANGED <<supervisorVars, readerVars>>
    /\ UNCHANGED <<lockVars, shutdownVars>>

\* time passes; it goes on passing while a panic of the main task unwinds
Tick ==
    /\ main_pc # "exited"
    /\ \E d \in TickSteps :
        /\ TicksBetween(StartInstant, now + d) <= MaxTicks
        /\ now' = now + d
    /\ response' = None
    /\ UNCHANGED <<debug_assertions, metrics, panicked, n_updates,
                   last_state, before, updated_at>>
    /\ UNCHANGED <<supervisorVars, readerVars>>
    /\ UNCHANGED <<lockVars, shutdownVars>>

(***************************************************************************)
(* The store behind Arc<RwLock<Metrics>>: the loop body takes the write    *)
(* lock and runs update statement by statement, the handlers of the        *)
(* multi-threaded runtime take the read lock, test the age and encode.     *)
(* tokio's lock also queues its waiters; the order in which waiters get    *)
(* the lock is left open here.                                             *)
(***************************************************************************)
MaxHandlers == 1
\* whole updates the read loop applies while handlers scrape
MaxCommits == 2
Handlers == 1..MaxHandlers

RwLockNew == [writer |-> FALSE, readers |-> 0]
\* RwLock::read is granted while no writer holds the lock
CanRead(lock) == ~lock.writer
\* RwLock::write is granted while nobody holds the lock
CanWrite(lock) == ~lock.writer /\ lock.readers = 0

\* a handler: started and at count the whole updates done when the request
\* arrived and when the body was made, at_time is the instant of the age test
HandlerIdle ==
    [pc |-> "idle", started |-> 0, at |-> 0, at_time |-> 0, body |-> None]

InitLockVars ==
    /\ rwlock = RwLockNew
    /\ writer = None
    /\ handlers = [h \in Handlers |-> HandlerIdle]
    /\ committed = <<MetricsNew(StartInstant)>>

\* the first statement at or after k whose field is present
RECURSIVE NextPresent(_, _)
NextPresent(stmts, k) ==
    IF k > Len(stmts) THEN k
    ELSE IF stmts[k].value # None THEN k
    ELSE NextPresent(stmts, k + 1)

\* the loop body with a frame in hand, before metrics.write().await returns
Pending(state) ==
    Some([state |-> state, stmts |-> UpdateStmts(state), k |-> 0, held |-> FALSE])

\* Some(Ok(frame)) = reader.next().await: the loop body asks for the write lock
FrameArrives ==
    /\ ~panicked
    /\ writer = None
    /\ n_updates < MaxCommits
    /\ \E state \in States : writer' = Pending(state)
    /\ UNCHANGED <<rwlock, handlers, committed>>
    /\ UNCHANGED <<metricsVars, supervisorVars, readerVars, shutdownVars>>

\* metrics.write().await returns the guard
AcquireWrite ==
    /\ ~panicked
    /\ writer # None
    /\ ~Unwrap(writer).held
    /\ CanWrite(rwlock)
    /\ rwlock' = [rwlock EXCEPT !.writer = TRUE]
    /\ writer' = Some([Unwrap(writer) EXCEPT
                         !.held = TRUE,
                         !.k = NextPresent(Unwrap(writer).stmts, 1)])
    /\ last_state' = Some(Unwrap(writer).state)
    /\ before' = Encode(metrics)
    /\ UNCHANGED <<debug_assertions, metrics, now, panicked, response,
                   n_updates, updated_at>>
    /\ UNCHANGED <<handlers, committed>>
    /\ UNCHANGED <<supervisorVars, readerVars, shutdownVars>>

\* one statement of update, run by the thread that holds the write lock.  A
\* statement that panics leaves the store as it is by then; the unwinding drops
\* the write guard (tokio's lock is not poisoned) and the loop body is gone
UpdateStmt ==
    /\ ~panicked
    /\ writer # None
    /\ Unwrap(writer).held
    /\ Unwrap(writer).k <= Len(Unwrap(writer).stmts)
    /\ \E w \in {Unwrap(writer)} :
       \E e \in {Effect(metrics, w.stmts[w.k], debug_assertions)} :
         /\ metrics' = Store(metrics, w.stmts[w.k], e.value)
         /\ panicked' = e.panic
         /\ writer' = IF e.panic THEN None
                      ELSE Some([w EXCEPT !.k = NextPresent(w.stmts, w.k + 1)])
         /\ rwlock' = IF e.panic THEN [rwlock EXCEPT !.writer = FALSE]
                      ELSE rwlock
    /\ UNCHANGED <<debug_assertions, now, response, n_updates, last_state,
                   before, updated_at>>
    /\ UNCHANGED <<handlers, committed>>
    /\ UNCHANGED <<supervisorVars, readerVars, shutdownVars>>

\* the last statement of update, and the guard dropped at the end of the arm
FinishUpdate ==
    /\ ~panicked
    /\ writer # None
    /\ Unwrap(writer).held
    /\ Unwrap(writer).k > Len(Unwrap(writer).stmts)
    /\ metrics' = [metrics EXCEPT !.last_update = now]
    /\ n_updates' = n_updates + 1
    /\ updated_at' = Some(now)
    /\ committed' = Append(committed, [metrics EXCEPT !.last_update = now])
    /\ rwlock' = [rwlock EXCEPT !.writer = FALSE]
    /\ writer' = None
    /\ UNCHANGED <<debug_assertions, now, panicked, response, last_state,
                   before>>
    /\ UNCHANGED handlers
    /\ UNCHANGED <<supervisorVars, readerVars, shutdownVars>>

\* a GET /metrics arrives: the handler asks for the read lock
Request ==
    /\ main_pc # "exited"
    /\ now > StartInstant
    /\ \E h \in Handlers :
        /\ handlers[h].pc \in {"idle", "done"}
        /\ handlers' = [handlers EXCEPT ![h] =
                          [HandlerIdle EXCEPT !.pc = "waiting",
                                              !.started = Len(committed)]]
    /\ UNCHANGED <<rwlock, writer, committed>>
    /\ UNCHANGED <<metricsVars, supervisorVars, readerVars, shutdownVars>>

\* metrics.read().await returns the guard
AcquireRead ==
    /\ main_pc # "exited"
    /\ \E h \in Handlers :
        /\ handlers[h].pc = "waiting"
        /\ CanRead(rwlock)
        /\ rwlock' = [rwlock EXCEPT !.readers = @ + 1]
        /\ handlers' = [handlers EXCEPT ![h].pc = "holding"]
    /\ UNCHANGED <<writer, committed>>
    /\ UNCHANGED <<metricsVars, supervisorVars, readerVars, shutdownVars>>

\* the age test and encode under the read guard, dropped when handler returns
Respond ==
    /\ main_pc # "exited"
    /\ \E h \in Handlers :
        /\ handlers[h].pc = "holding"
        /\ rwlock' = [rwlock EXCEPT !.readers = @ - 1]
        /\ handlers' = [handlers EXCEPT ![h] =
                          [@ EXCEPT !.pc = "done",
                                    !.at = Len(committed),
                                    !.at_time = now,
                                    !.body = Some(Handler(metrics, now))]]
    /\ UNCHANGED <<writer, committed>>
    /\ UNCHANGED <<metricsVars, supervisorVars, readerVars, shutdownVars>>

\* the panic has unwound main and block_on: the runtime is shut down, the
\* server task and its connections go with it, and the process ends (exit
\* code 101)
Abort ==
    /\ panicked
    /\ main_pc # "exited"
    /\ main_pc' = "exited"
    /\ UNCHANGED server
    /\ UNCHANGED <<metricsVars, supervisorVars, readerVars, lockVars>>

(***************************************************************************)
(* read: the retry around open, framed and the read loop                   *)
(***************************************************************************)
\* main before any signal: select! pending, the server task serving
ServerNew == [state |-> "serving", in_flight |-> 0, stalled |-> 0]
InitShutdownVars ==
    /\ main_pc = "select"
    /\ server = ServerNew

MaxOpens == 2
\* what the ports opened by the supervisor deliver
Connections ==
    {<<>>, <<"noise">>, <<"telegram1">>, <<"telegram2">>,
     <<"malformed", "telegram2">>, <<"oversize">>}

Idle ==
    /\ pc = "idle"
    /\ backoff = BackoffNew
    /\ waits = <<>>
    /\ opens = 0
    /\ log = <<>>
    /\ port = <<>>
    /\ items = <<>>
    /\ framed = FramedNew
    /\ emitted = <<>>
    /\ last_decode = None

\* the closure returned a transient error: retry waits for next_backoff and
\* calls the closure again, or returns the error when next_backoff is None
RetryAfterError(lines, cause) ==
    /\ \E randomized \in RandomizedIntervals(backoff.current_interval),
          spent \in (IF MaxElapsedTime = None THEN {FALSE} ELSE BOOLEAN) :
         \E nb \in {NextBackoff(backoff, randomized, spent)} :
            IF nb = None
            THEN /\ pc' = "returned"
                 /\ UNCHANGED <<backoff, waits>>
            ELSE /\ pc' = "sleeping"
                 /\ backoff' = Unwrap(nb).backoff
                 /\ waits' = (IF waits = <<>> THEN <<>>
                               ELSE <<waits[Len(waits)]>>)
                               \o <<[wait |-> Unwrap(nb).wait,
                                     interval |-> Unwrap(nb).interval,
                                     cause |-> cause]>>
    /\ log' = lines
    /\ UNCHANGED opens

\* open_native_async fails
OpenFail ==
    /\ pc = "start" /\ ~panicked
    /\ RetryAfterError(<<"opening serial port", "failed to open serial port">>,
                       "open")
    /\ UNCHANGED <<metricsVars, readerVars>>
    /\ UNCHANGED <<lockVars, shutdownVars>>

\* a reader that takes over the bytes the reader before it had left
FramedOverOldBuffer(io) ==
    [FramedNew EXCEPT !.buffer = IF last_decode = None THEN <<>>
                                 ELSE Unwrap(last_decode).rest]
\* Dsmr5Codec::new().framed(port): a reader of its own for the port just opened
FramedOver(io) == FramedNew

\* open_native_async succeeds; framed(port)
OpenOk ==
    /\ pc = "start" /\ ~panicked
    /\ opens < MaxOpens
    /\ \E pieces \in Connections :
        /\ items' = pieces
        /\ port' = StreamBytes(pieces)
        /\ framed' = FramedOver(StreamBytes(pieces))
    /\ emitted' = <<>>
    /\ last_decode' = None
    /\ pc' = "reading"
    /\ opens' = opens + 1
    /\ waits' = <<>>
    /\ log' = <<"opening serial port", "port open">>
    /\ UNCHANGED <<backoff, metricsVars>>
    /\ UNCHANGED <<lockVars, shutdownVars>>

\* the sleep between two attempts is over
WakeUp ==
    /\ pc = "sleeping" /\ ~panicked
    /\ pc' = "start"
    /\ log' = <<>>
    /\ UNCHANGED <<backoff, waits, opens, metricsVars, readerVars>>
    /\ UNCHANGED <<lockVars, shutdownVars>>

\* sigterm or ctrl-c wins the select of main: the read future is dropped
Signal ==
    /\ pc \in {"start", "sleeping", "reading"} /\ ~panicked
    /\ pc' = "cancelled"
    /\ log' = <<"stopping">>
    /\ writer' = None
    /\ UNCHANGED <<backoff, waits, opens, metricsVars, readerVars>>
    /\ UNCHANGED <<rwlock, handlers, committed, shutdownVars>>

\* reader.next() yields None: the while loop ends, the reader and the port
\* are dropped and the closure returns its transient error
LoopEnds(lines) ==
    /\ port' = <<>>
    /\ framed' = FramedNew
    /\ RetryAfterError(lines, "stream")
    /\ UNCHANGED <<items, emitted, metricsVars>>

\* poll_next with nothing readable: the port is read.  A read of bytes makes
\* the buffer readable; a read of none is the end of the stream.
FramedRead ==
    /\ pc = "reading" /\ ~panicked
    /\ writer = None
    /\ ~framed.has_errored /\ ~framed.is_readable
    /\ IF port # <<>>
       THEN /\ \E n \in ReadSizes(port) :
                /\ framed' = [framed EXCEPT !.buffer = @ \o SubSeq(port, 1, n),
                                            !.eof = FALSE, !.is_readable = TRUE]
                /\ port' = Advance(port, n)
            /\ log' = <<>>
            /\ UNCHANGED <<pc, backoff, waits, opens, items, emitted, metricsVars>>
       ELSE IF framed.eof
       THEN LoopEnds(<<>>)
       ELSE /\ framed' = [framed EXCEPT !.eof = TRUE, !.is_readable = TRUE]
            /\ log' = <<>>
            /\ UNCHANGED <<pc, backoff, waits, opens, port, items, emitted,
                           metricsVars>>
    /\ UNCHANGED last_decode
    /\ UNCHANGED <<lockVars, shutdownVars>>

\* the loop body for Ok(frame) up to metrics.write().await: the frame is
\* printed and the write lock asked for
YieldFrame(r) ==
    /\ framed' = [framed EXCEPT !.buffer = r.src]
    /\ emitted' = Append(emitted, Unwrap(r.item))
    /\ log' = <<"frame received">>
    /\ UNCHANGED <<pc, backoff, waits, opens, port, items, metricsVars>>
\* the loop body for Err(error), with a Framed that goes on after an error
YieldErrorAndGoOn(r) ==
    /\ framed' = [framed EXCEPT !.buffer = r.src]
    /\ log' = <<"error reading frame", r.kind>>
    /\ UNCHANGED <<pc, backoff, waits, opens, port, items, emitted, metricsVars>>
\* the loop body for Err(error); Framed remembers that it has erred
YieldError(r) ==
    /\ framed' = [framed EXCEPT !.buffer = r.src, !.has_errored = TRUE]
    /\ log' = <<"error reading frame", r.kind>>
    /\ UNCHANGED <<pc, backoff, waits, opens, port, items, emitted, metricsVars>>
\* decode found no frame yet: the port is read next
NeedMoreBytes(r) ==
    /\ framed' = [framed EXCEPT !.buffer = r.src, !.is_readable = FALSE]
    /\ log' = <<>>
    /\ UNCHANGED <<pc, backoff, waits, opens, port, items, emitted, metricsVars>>

\* poll_next with a readable buffer: decode, or decode_eof after the end of
\* the stream, and what the read loop does with the item
FramedDecode ==
    /\ pc = "reading" /\ ~panicked
    /\ writer = None
    /\ ~framed.has_errored /\ framed.is_readable
    /\ \E r \in {IF framed.eof THEN DecodeEof(framed.buffer)
                 ELSE Decode(framed.buffer)} :
        /\ last_decode' = Some([src |-> framed.buffer, kind |-> r.kind,
                                item |-> r.item, rest |-> r.src,
                                frame |-> r.frame])
        /\ IF r.kind = "Frame" THEN YieldFrame(r)
           ELSE IF r.kind # "None" THEN YieldError(r)
           ELSE IF framed.eof THEN LoopEnds(<<>>)
           ELSE NeedMoreBytes(r)
        /\ writer' = IF r.kind = "Frame" THEN Pending(Unwrap(r.item)) ELSE None
    /\ UNCHANGED <<rwlock, handlers, committed, shutdownVars>>

\* the rest of the loop body for Ok(frame): metrics.write().await returns the
\* guard, update runs and the guard is dropped
ApplyFrame ==
    /\ pc = "reading" /\ ~panicked
    /\ writer # None
    /\ CanWrite(rwlock)
    /\ ApplyUpdate(Unwrap(writer).state)
    /\ writer' = None
    /\ UNCHANGED <<rwlock, handlers, committed, shutdownVars>>
    /\ UNCHANGED <<supervisorVars, readerVars>>

\* poll_next after an error: the stream yields None
FramedEnd ==
    /\ pc = "reading" /\ ~panicked
    /\ writer = None
    /\ framed.has_errored
    /\ LoopEnds(<<>>)
    /\ UNCHANGED last_decode
    /\ UNCHANGED <<lockVars, shutdownVars>>

\* the store on its own
InitMetrics == InitMetricsVars /\ Idle /\ InitLockVars /\ InitShutdownVars
NextMetrics == Update \/ Scrape \/ Tick \/ Abort
SpecMetrics == InitMetrics /\ [][NextMetrics]_vars

\* one connection: a port that delivers the bytes of a stream, cut into reads
\* in every way
InitCodec ==
    /\ InitMetricsVars
    /\ InitLockVars
    /\ InitShutdownVars
    /\ pc = "reading"
    /\ backoff = BackoffNew
    /\ waits = <<>>
    /\ opens = 1
    /\ log = <<"opening serial port", "port open">>
    /\ items \in Streams
    /\ port = StreamBytes(items)
    /\ framed = FramedNew
    /\ emitted = <<>>
    /\ last_decode = None
NextCodec == FramedRead \/ FramedDecode \/ ApplyFrame \/ FramedEnd \/ Abort
SpecCodec == InitCodec /\ [][NextCodec]_vars

\* the read task from its start
InitRead ==
    /\ InitMetricsVars
    /\ InitLockVars
    /\ InitShutdownVars
    /\ pc = "start"
    /\ backoff = BackoffNew
    /\ waits = <<>>
    /\ opens = 0
    /\ log = <<>>
    /\ port = <<>>
    /\ items = <<>>
    /\ framed = FramedNew
    /\ emitted = <<>>
    /\ last_decode = None
NextRead ==
    \/ OpenFail \/ OpenOk \/ WakeUp \/ Signal \/ FramedRead \/ FramedDecode
    \/ ApplyFrame \/ FramedEnd \/ Abort
SpecRead == InitRead /\ [][NextRead]_vars
\* decode_eof on what the buffer holds at the end of the stream
DecodeAtEof == framed.eof /\ FramedDecode
\* ApplyFrame is enabled exactly when a frame is pending and the lock is free,
\* and its steps are the ones that end the pending frame inside the read loop
FramePending ==
    pc = "reading" /\ ~panicked /\ writer # None /\ CanWrite(rwlock)
FrameApplied == FramePending /\ writer' = None /\ pc' = pc
\* WF_vars(ApplyFrame), written with these two
ApplyFrameFair == []<>(~FramePending) \/ []<><<FrameApplied>>_vars
\* the timer of the sleep fires, open_native_async returns at once, the write
\* lock is granted, after an error or the end of the stream poll_next
\* waits for nothing, and a panic finishes unwinding
FairSpecRead ==
    SpecRead /\ WF_vars(WakeUp) /\ WF_vars(OpenFail \/ OpenOk)
            /\ WF_vars(DecodeAtEof) /\ ApplyFrameFair /\ WF_vars(FramedEnd)
            /\ WF_vars(Abort)

(***************************************************************************)
(* The decoder on its own: a caller that appends bytes to one buffer and   *)
(* calls decode on it whenever it likes, whatever decode returned before.  *)
(***************************************************************************)
\* src.extend_from_slice(..) by the caller
Extend ==
    /\ pc = "decoding"
    /\ port # <<>>
    /\ \E n \in ReadSizes(port) :
        /\ framed' = [framed EXCEPT !.buffer = @ \o SubSeq(port, 1, n)]
        /\ port' = Advance(port, n)
    /\ UNCHANGED <<items, emitted, last_decode>>
    /\ UNCHANGED <<metricsVars, supervisorVars, lockVars, shutdownVars>>

\* codec.decode(&mut src)
CallDecode ==
    /\ pc = "decoding"
    /\ \E r \in {Decode(framed.buffer)} :
        /\ last_decode' = Some([src |-> framed.buffer, kind |-> r.kind,
                                item |-> r.item, rest |-> r.src,
                                frame |-> r.frame])
        /\ framed' = [framed EXCEPT !.buffer = r.src]
        /\ emitted' = IF r.kind = "Frame" THEN Append(emitted, Unwrap(r.item))
                      ELSE emitted
    /\ UNCHANGED <<port, items>>
    /\ UNCHANGED <<metricsVars, supervisorVars, lockVars, shutdownVars>>

InitDecoder ==
    /\ InitMetricsVars
    /\ InitLockVars
    /\ InitShutdownVars
    /\ pc = "decoding"
    /\ backoff = BackoffNew
    /\ waits = <<>>
    /\ opens = 0
    /\ log = <<>>
    /\ items \in Streams
    /\ port = StreamBytes(items)
    /\ framed = FramedNew
    /\ emitted = <<>>
    /\ last_decode = None
NextDecoder == Extend \/ CallDecode
SpecDecoder == InitDecoder /\ [][NextDecoder]_vars

(***************************************************************************)
(* main after the select, and the server task.  The server is hyper's      *)
(* behind axum::Server: with_graceful_shutdown stops accepting when the    *)
(* signal future resolves and then waits until every connection is gone.   *)
(* A connection is in flight (its request is being served and will be      *)
(* answered) or stalled (its client has sent part of a request and sends   *)
(* nothing more).                                                          *)
(***************************************************************************)
MaxConnections == 2

\* drop(notify_shutdown); main goes on to await the server task
DropNotify ==
    /\ pc = "cancelled"
    /\ main_pc = "select"
    /\ main_pc' = "awaiting_server"
    /\ UNCHANGED server
    /\ UNCHANGED <<metricsVars, supervisorVars, readerVars, lockVars>>

\* notify_shutdown.recv() returns once the sender is dropped, by main after
\* the select or by a panic that unwinds main: "stopping server"
ServerNotified ==
    /\ main_pc # "exited"
    /\ main_pc = "awaiting_server" \/ panicked
    /\ server.state = "serving"
    /\ server' = [server EXCEPT !.state = "draining"]
    /\ UNCHANGED main_pc
    /\ UNCHANGED <<metricsVars, supervisorVars, readerVars, lockVars>>

\* a client connects and sends a request
Accept ==
    /\ main_pc # "exited"
    /\ server.state = "serving"
    /\ server.in_flight + server.stalled < MaxConnections
    /\ server' = [server EXCEPT !.in_flight = @ + 1]
    /\ UNCHANGED main_pc
    /\ UNCHANGED <<metricsVars, supervisorVars, readerVars, lockVars>>

\* a client connects, sends part of a request and nothing after it
AcceptStalled ==
    /\ main_pc # "exited"
    /\ server.state = "serving"
    /\ server.in_flight + server.stalled < MaxConnections
    /\ server' = [server EXCEPT !.stalled = @ + 1]
    /\ UNCHANGED main_pc
    /\ UNCHANGED <<metricsVars, supervisorVars, readerVars, lockVars>>

\* the handler returns, the response is written and the connection closes
Complete ==
    /\ main_pc # "exited"
    /\ server.state # "stopped"
    /\ server.in_flight > 0
    /\ server' = [server EXCEPT !.in_flight = @ - 1]
    /\ UNCHANGED main_pc
    /\ UNCHANGED <<metricsVars, supervisorVars, readerVars, lockVars>>

\* the client of a stalled connection closes it
ClientGivesUp ==
    /\ main_pc # "exited"
    /\ server.state # "stopped"
    /\ server.stalled > 0
    /\ server' = [server EXCEPT !.stalled = @ - 1]
    /\ UNCHANGED main_pc
    /\ UNCHANGED <<metricsVars, supervisorVars, readerVars, lockVars>>

\* the graceful shutdown completes once no connection is left: "server stopped"
ServerStops ==
    /\ main_pc # "exited"
    /\ server.state = "draining"
    /\ server.in_flight = 0
    /\ server.stalled = 0
    /\ server' = [server EXCEPT !.state = "stopped"]
    /\ UNCHANGED main_pc
    /\ UNCHANGED <<metricsVars, supervisorVars, readerVars, lockVars>>

\* server_task.await returns and main ends
Exit ==
    /\ main_pc = "awaiting_server"
    /\ server.state = "stopped"
    /\ main_pc' = "exited"
    /\ UNCHANGED server
    /\ UNCHANGED <<metricsVars, supervisorVars, readerVars, lockVars>>

\* the whole process: the supervisor and its reader, the server, and main
InitMain == InitRead
NextMain ==
    \/ OpenFail \/ OpenOk \/ WakeUp \/ Signal \/ FramedRead \/ FramedDecode
    \/ ApplyFrame \/ FramedEnd
    \/ DropNotify \/ ServerNotified \/ Accept \/ AcceptStalled \/ Complete
    \/ ClientGivesUp \/ ServerStops \/ Exit \/ Abort
SpecMain == InitMain /\ [][NextMain]_vars
\* main and the server task are scheduled, and a request that is being served
\* is answered, and a panic finishes unwinding; nothing makes a client go on
\* with a request it has begun
FairSpecMain ==
    /\ SpecMain
    /\ WF_vars(DropNotify)
    /\ WF_vars(ServerNotified)
    /\ WF_vars(Complete)
    /\ WF_vars(ServerStops)
    /\ WF_vars(Exit)
    /\ WF_vars(Abort)

\* the read loop feeding the store while handlers scrape it
InitShared == InitMetrics
NextShared ==
    \/ FrameArrives \/ AcquireWrite \/ UpdateStmt \/ FinishUpdate
    \/ Request \/ AcquireRead \/ Respond \/ Tick \/ Abort
SpecShared == InitShared /\ [][NextShared]_vars


\* the counter statements of a snapshot whose field is present
CounterStmts(state) ==
    LET stmts == UpdateStmts(state)
    IN  {stmts[k] : k \in {j \in 1..Len(stmts) :
            /\ stmts[j].kind \in {"CounterVec", "Counter", "IntCounterVec", "IntCounter"}
            /\ stmts[j].value # None}}
\* the values of the counters of an encoded registry, child by child
CounterValues(enc) ==
    [c \in {<<name, l>> : name \in CounterVecs \cup IntCounterVecs,
                          l \in {Label(0), Label(1), Label(2)}}
          \cup {<<name, "">> : name \in Counters \cup IntCounters} |->
        IF c[1] \in CounterVecs THEN VecGet(enc[c[1]], F64Zero, c[2])
        ELSE IF c[1] \in IntCounterVecs THEN VecGet(enc[c[1]], 0, c[2])
        ELSE enc[c[1]]]
\* a counter value is at most another one
CounterLe(name, x, y) ==
    IF name \in CounterVecs \cup Counters THEN F64Le(x, y) ELSE x <= y

(* C1: whatever snapshots are applied, every counter (each child of each
   counter family) reads after a call of update at least what it read when
   the call began. *)
C1_CountersNeverDecrease ==
    \A c \in DOMAIN CounterValues(before) :
        CounterLe(c[1], CounterValues(before)[c], CounterValues(Encode(metrics))[c])

(* C6: a scrape made more than METRICS_TTL after the latest completed update
   gets the empty body, and one made within METRICS_TTL of it gets the
   encoding of all instruments as they stand. *)
C6_ScrapeFreshness ==
    (response # None /\ updated_at # None) =>
        IF now - Unwrap(updated_at) > METRICS_TTL
        THEN Unwrap(response) = None
        ELSE Unwrap(response) = Some([k \in Instruments |-> metrics[k]])
C6_Witness ==
    /\ response = Some(None)
    /\ updated_at # None
    /\ now - Unwrap(updated_at) > METRICS_TTL
C6_WitnessWithinWindow ==
    /\ response # None /\ Unwrap(response) # None
    /\ updated_at # None
    /\ now - Unwrap(updated_at) = METRICS_TTL

(* C7: after a completed update, every counter whose field is present in the
   snapshot reads exactly the scaled value the snapshot reports. *)
C7_CounterReadsReported ==
    (last_state # None /\ ~panicked) =>
        \A st \in CounterStmts(Unwrap(last_state)) :
            Current(metrics, st) = Unwrap(st.value)

(* C8: a call of update with the same snapshot as the call before it leaves
   every exported instrument value as it was. *)
C8_SameSnapshotNoChange ==
    [][(last_state # None /\ last_state' = last_state)
          => Encode(metrics') = Encode(metrics)]_vars

\* the kind of result of the latest call of decode, "" before the first
LastDecodeKind == IF last_decode = None THEN "" ELSE Unwrap(last_decode).kind
\* the bytes a buffer holds from its first start marker up to the end marker
\* after it, or up to its end when that marker has yet to come
MarkedSpan(src) ==
    LET start == Position(src, StartMarker)
        bang  == Position(Advance(src, Unwrap(start)), EndMarker)
    IN  IF start = None THEN 0
        ELSE IF bang = None THEN Len(src) - Unwrap(start)
        ELSE Unwrap(bang)

(* C2: when the bytes of a stream of well-formed telegrams and garbage free
   of markers have all been read, however they were cut into reads, and the
   read loop is over, the reader has yielded exactly the snapshots of the
   telegrams, each once and in order. *)
C2_EmitsExactlyTheTelegrams ==
    (/\ pc = "sleeping"
     /\ \A i \in 1..Len(items) :
          items[i] \in {"telegram1", "telegram2", "noise", "long_noise"})
        => emitted = TelegramsOf(items)

(* C3: while the latest result of decode is a malformed-telegram error, the
   read loop is still on its connection (or cancelled): the error starts no
   backoff wait and no new open attempt. *)
C3_MalformedKeepsReading ==
    LastDecodeKind = "ErrMalformed" => pc \in {"reading", "cancelled"}

(* C4: the step after a size violation leaves the read loop; a connection
   whose stream has ended is read no further; reading only ever begins with
   an open and a new Framed; and after a size violation or the end of the
   stream the supervisor gets to its next open attempt, unless it is
   cancelled or the process has panicked. *)
C4_AbandonAndReconnect ==
    /\ [][/\ (pc = "reading" /\ LastDecodeKind = "ErrTooLong")
               => pc' \in {"sleeping", "cancelled"}
          /\ (pc = "reading" /\ framed.eof /\ pc' = "reading")
               => (port' = port /\ framed'.eof)
          /\ (pc # "reading" /\ pc' = "reading")
               => (pc = "start" /\ framed' = FramedNew /\ emitted' = <<>>
                   /\ opens' = opens + 1)]_vars
    /\ (pc = "reading" /\ (framed.eof \/ LastDecodeKind = "ErrTooLong"))
          ~> (pc \in {"start", "cancelled"} \/ panicked)
C4_Witness ==
    /\ pc = "start"
    /\ LastDecodeKind = "ErrTooLong"
    /\ framed = FramedNew
    /\ waits # <<>> /\ waits[Len(waits)].cause = "stream"

(* C5: a call of decode on a buffer that holds more than MaxFrameLen bytes
   from its start marker up to the end marker fails with the size violation,
   yields no frame and leaves the buffer as it was. *)
C5_SizeViolation ==
    (last_decode # None /\ MarkedSpan(Unwrap(last_decode).src) > MaxFrameLen)
        => /\ Unwrap(last_decode).kind = "ErrTooLong"
           /\ Unwrap(last_decode).item = None
           /\ Unwrap(last_decode).rest = Unwrap(last_decode).src
C5_Witness ==
    /\ last_decode # None
    /\ MarkedSpan(Unwrap(last_decode).src) > MaxFrameLen
    /\ Unwrap(last_decode).kind = "ErrTooLong"
    /\ items = <<"oversize">>

(* C9: retry never returns; every wait, after a failed open or after the end
   of a read loop, ends with the closure being called again; and every call
   of the closure makes an open attempt, the one that prints "opening serial
   port" and leaves the closure sleeping after a failure or reading after a
   success; unless the task is cancelled first.  Before the call nothing is
   printed, so the attempt is a new one and not the one that failed. *)
C9_NeverGivesUp ==
    /\ [](pc # "returned")
    /\ [](pc = "start" => log = <<>>)
    /\ (pc = "sleeping") ~> (pc \in {"start", "cancelled"})
    /\ (pc = "start")
          ~> \/ /\ pc \in {"sleeping", "reading"}
                /\ log # <<>> /\ log[1] = "opening serial port"
             \/ pc = "cancelled"
C9_Witness ==
    /\ pc = "start"
    /\ Len(waits) = 2
    /\ waits[1].cause = "stream" /\ waits[2].cause = "open"

\* the latest two waits both follow failed open attempts
TwoFailedOpens ==
    Len(waits) = 2 /\ waits[1].cause = "open" /\ waits[2].cause = "open"
(* C10, as stated: of two waits after consecutive failed open attempts the
   later is at least the earlier, and no wait is longer than MaxInterval. *)
C10_WaitsMonotoneCapped ==
    /\ \A i \in 1..Len(waits) : waits[i].wait <= MaxInterval
    /\ TwoFailedOpens => waits[1].wait <= waits[2].wait
(* C10, amended: the interval a wait is drawn from never exceeds MaxInterval
   and does not shrink from one failed open attempt to the next; every wait
   is within RandomizationPercent of its interval; and a successful open
   leaves the task in its read loop with a new Framed on the port. *)
C10_IntervalsMonotoneCapped ==
    /\ \A i \in 1..Len(waits) :
        /\ waits[i].interval <= MaxInterval
        /\ 2 * waits[i].wait >= waits[i].interval
        /\ 2 * waits[i].wait <= 3 * waits[i].interval
    /\ TwoFailedOpens => waits[1].interval <= waits[2].interval
    /\ (log = <<"opening serial port", "port open">>)
          => (pc = "reading" /\ framed = FramedNew /\ port = StreamBytes(items))
C10_Witness ==
    /\ TwoFailedOpens
    /\ waits[2].interval = MaxInterval
    /\ waits[2].wait < waits[1].wait


\* C11: every scrape response is what the handler makes of the store as it
\* stood after a whole number of completed updates (never of a store in which
\* only some statements of an update have run), and that number is at least
\* the number of updates completed when the request arrived
C11_ScrapesSeeWholeUpdates ==
    \A h \in Handlers :
        handlers[h].pc = "done" =>
            /\ handlers[h].at >= handlers[h].started
            /\ handlers[h].at <= Len(committed)
            /\ Unwrap(handlers[h].body) =
                   Handler(committed[handlers[h].at], handlers[h].at_time)
\* what an encoding reports for an instrument and label: None when the child
\* of a vector was never created
Reported(enc, name, l) ==
    IF name \in CounterVecs \cup IntCounterVecs \cup GaugeVecs
    THEN IF l \in DOMAIN enc[name] THEN Some(enc[name][l]) ELSE None
    ELSE Some(enc[name])
\* the optional fields of a snapshot, each with its instrument and label
FieldsOf(state) ==
    UNION {{<<"energy_delivered_joules_total", Label(i), state.meterreadings[i + 1].to>>,
            <<"energy_received_joules_total", Label(i), state.meterreadings[i + 1].by>>}
             : i \in 0..(Len(state.meterreadings) - 1)}
    \cup UNION {{<<"phase_voltage_sags_total", Label(i), state.lines[i + 1].voltage_sags>>,
                 <<"phase_voltage_swells_total", Label(i), state.lines[i + 1].voltage_swells>>,
                 <<"phase_voltage_volts", Label(i), state.lines[i + 1].voltage>>,
                 <<"phase_current_amperes", Label(i), state.lines[i + 1].current>>,
                 <<"phase_active_power_positive_watts", Label(i),
                   state.lines[i + 1].active_power_plus>>,
                 <<"phase_active_power_negative_watts", Label(i),
                   state.lines[i + 1].active_power_neg>>}
                  : i \in 0..(Len(state.lines) - 1)}
    \cup {<<"energy_tariff", "", state.tariff_indicator>>,
          <<"power_delivered_watts", "", state.power_delivered>>,
          <<"power_received_watts", "", state.power_received>>,
          <<"power_failures_total", "", state.power_failures>>,
          <<"power_long_failures_total", "", state.long_power_failures>>,
          <<"gas_delivered_cubic_meters_total", "",
            IF FindGasSlave(state.slaves) = None THEN None
            ELSE Unwrap(FindGasSlave(state.slaves)).meter_reading>>}

\* C12: for every field that is absent from a snapshot, the call of update
\* leaves what the store reports for that field's instrument and label as it
\* was before the call
C12_AbsentFieldsUntouched ==
    last_state # None =>
        \A f \in FieldsOf(Unwrap(last_state)) :
            f[3] = None =>
                Reported(Encode(metrics), f[1], f[2]) = Reported(before, f[1], f[2])
\* a snapshot with only the gas reading came after one with all fields: the
\* gas counter moved and the power gauge kept the value it had
C12_Witness ==
    /\ ~panicked
    /\ last_state # None
    /\ Unwrap(last_state).power_delivered = None
    /\ Unwrap(last_state).lines[1].current = None
    /\ before.power_delivered_watts # F64Zero
    /\ "1" \in DOMAIN before.phase_current_amperes
    /\ metrics.gas_delivered_cubic_meters_total
           # before.gas_delivered_cubic_meters_total

\* C13: after a shutdown signal the process eventually exits, whatever the
\* connections of the scrape server do
C13_SignalLeadsToExit == (pc = "cancelled") ~> (main_pc = "exited")

\* C14: every frame that decode hands to the parser begins with the start
\* marker and is the stretch of the buffer that begins at its first start
\* marker; the bytes before that marker are in neither the frame nor the
\* buffer decode leaves
C14_FramesBeginAtStartMarker ==
    (last_decode # None /\ Unwrap(last_decode).frame # None) =>
        LET d == Unwrap(last_decode)
            frame == Unwrap(d.frame)
            start == Position(d.src, StartMarker)
        IN  /\ frame # <<>>
            /\ frame[1] = StartMarker
            /\ start # None
            /\ frame = SubSeq(d.src, Unwrap(start) + 1, Unwrap(start) + Len(frame))
            /\ d.rest = SubSeq(d.src, Unwrap(start) + Len(frame) + 1, Len(d.src))
\* a telegram was cut from a buffer that held other bytes before its start
\* marker, and was parsed into a snapshot
C14_Witness ==
    /\ last_decode # None
    /\ Unwrap(last_decode).kind = "Frame"
    /\ Unwrap(last_decode).src[1] # StartMarker
    /\ Unwrap(last_decode).frame = Some(TelegramBytes(<<LevelDigit(1)>>))

\* C15: a call of decode that returns the size violation leaves the buffer as
\* it was, and from then on, whatever bytes are appended, every call of decode
\* on that buffer returns the size violation again, removes nothing and yields
\* no frame
C15_SizeViolationSticks ==
    /\ [](LastDecodeKind = "ErrTooLong" =>
            /\ Unwrap(last_decode).rest = Unwrap(last_decode).src
            /\ Unwrap(last_decode).item = None)
    /\ [][LastDecodeKind = "ErrTooLong" =>
            /\ LastDecodeKind' = "ErrTooLong"
            /\ emitted' = emitted
            /\ Len(framed'.buffer) >= Len(framed.buffer)
            /\ SubSeq(framed'.buffer, 1, Len(framed.buffer)) = framed.buffer]_vars
\* decode returned the size violation on a buffer in which a whole well-formed
\* telegram follows the oversize bytes
C15_Witness ==
    /\ LastDecodeKind = "ErrTooLong"
    /\ port = <<>>
    /\ items = <<"oversize", "telegram1">>
    /\ Unwrap(last_decode).src = StreamBytes(items)
    /\ framed.buffer = StreamBytes(items)

\* whether part occurs in whole as a stretch of consecutive bytes
IsStretchOf(part, whole) ==
    \E a \in 0..(Len(whole) - Len(part)) :
        SubSeq(whole, a + 1, a + Len(part)) = part

\* C16: every connection begins with an empty buffer, what the buffer and the
\* port hold together is always the tail of what this connection delivers,
\* and every buffer decode is called on is a stretch of this connection's
\* bytes: no byte of an earlier connection is ever decoded with a later one's
C16_ConnectionsStartEmpty ==
    /\ [][(pc # "reading" /\ pc' = "reading") => framed'.buffer = <<>>]_vars
    /\ [](pc = "reading" =>
            LET all == StreamBytes(items)
                held == framed.buffer \o port
            IN  /\ Len(held) <= Len(all)
                /\ held = SubSeq(all, Len(all) - Len(held) + 1, Len(all))
                /\ last_decode # None =>
                       IsStretchOf(Unwrap(last_decode).src, all))
\* the second connection, opened after one that delivered a telegram, has
\* bytes in its buffer and has had them decoded
C16_Witness ==
    /\ pc = "reading"
    /\ opens = 2
    /\ n_updates >= 1
    /\ emitted = <<>>
    /\ last_decode # None
    /\ framed.buffer # <<>>

\* C17: every call of update that returns, also one for a snapshot in which
\* every field is absent, sets last_update to the instant of the call, so a
\* scrape made within the window after a call that changed no instrument is
\* served the encoding and not the empty body
C17_EveryUpdateStamps ==
    /\ (last_state # None /\ ~panicked) =>
           (updated_at # None /\ metrics.last_update = Unwrap(updated_at))
    /\ (/\ response # None
        /\ last_state # None
        /\ Encode(metrics) = before
        /\ ~panicked
        /\ now - Unwrap(updated_at) <= METRICS_TTL) =>
           Unwrap(response) = Some(Encode(metrics))
\* the last snapshot had no field at all and came more than a window after
\* the start of the process; the scrape after it got the encoding
C17_Witness ==
    /\ last_state = Some(StateOf(NoFields, 1))
    /\ ~panicked
    /\ Encode(metrics) = before
    /\ Unwrap(updated_at) > StartInstant + METRICS_TTL
    /\ response # None
    /\ Unwrap(response) = Some(Encode(metrics))

\* C19: from the start of the process until the first snapshot has been
\* applied every scrape returns the empty body
C19_EmptyBeforeFirstUpdate ==
    (n_updates = 0 /\ last_state = None /\ response # None) =>
        Unwrap(response) = None
\* a scrape one tick after the start, before any snapshot, got the empty body
C19_Witness ==
    /\ n_updates = 0
    /\ last_state = None
    /\ now = StartInstant + 1
    /\ response = Some(None)

\* C18: the frame decode splits off the buffer is at most MaxFrameLen bytes
\* long, and padded it is exactly MaxFrameLen bytes long, which is what the
\* conversion to the fixed-size array needs in order not to panic
C18_FrameFitsArray ==
    (last_decode # None /\ Unwrap(last_decode).frame # None) =>
        /\ Len(Unwrap(Unwrap(last_decode).frame)) <= MaxFrameLen
        /\ Len(Unwrap(last_decode).src) <= MaxFrameLen
        /\ Len(Resize(Unwrap(Unwrap(last_decode).frame), MaxFrameLen)) = MaxFrameLen
\* a frame of exactly MaxFrameLen bytes was split off and handed to the parser
C18_Witness ==
    /\ last_decode # None
    /\ Unwrap(last_decode).frame # None
    /\ Len(Unwrap(Unwrap(last_decode).frame)) = MaxFrameLen

\* C20: a call of decode that returns Ok(None) removes from the buffer at most
\* the bytes before the first start marker: what it leaves is the buffer from
\* that marker on, and the whole buffer when there is no start marker
C20_NoneKeepsFromStartMarker ==
    (last_decode # None /\ Unwrap(last_decode).kind = "None") =>
        LET d == Unwrap(last_decode)
            start == Position(d.src, StartMarker)
        IN  IF start = None THEN d.rest = d.src
            ELSE d.rest = SubSeq(d.src, Unwrap(start) + 1, Len(d.src))
\* decode returned Ok(None) on a buffer with bytes before the start marker and
\* an unfinished telegram after it; and on a buffer without any start marker
C20_Witness ==
    /\ last_decode # None
    /\ Unwrap(last_decode).kind = "None"
    /\ Position(Unwrap(last_decode).src, StartMarker) # None
    /\ Unwrap(last_decode).src[1] # StartMarker
    /\ Len(Unwrap(last_decode).rest) > 1
    /\ Len(Unwrap(last_decode).rest) < Len(Unwrap(last_decode).src)
C20_WitnessNoMarker ==
    /\ last_decode # None
    /\ Unwrap(last_decode).kind = "None"
    /\ Position(Unwrap(last_decode).src, StartMarker) = None
    /\ Unwrap(last_decode).src # <<>>

====
